---- MODULE Spec2Model ----
(***************************************************************************)
(* Run orchestration and completion tracking of the calling agent's        *)
(* bridge server (src/src/App.jsx, lines 151-262) together with the fetch  *)
(* job it spawns (db_fetch.js, src/utils/sendToWebhook.js lines 38-225),   *)
(* and the App component of the page (src/src/App.jsx, lines 59-149).      *)
(*                                                                         *)
(* The server is one Node process.  Every handler runs synchronously from  *)
(* one `await` to the next, so one action of the model is one such         *)
(* synchronous stretch together with the file-system call it was waiting   *)
(* for.  fs.promises.writeFile is two file-system calls, open(O_TRUNC) and *)
(* write at offset 0, and other handlers may run between them.             *)
(*                                                                         *)
(* Request slots are taken in order of arrival, and a handler's locals are *)
(* dropped when it has answered.  `persisted` and the fields started and   *)
(* after of a callback are history: they record what was readable last and *)
(* which triggers a request came after; no action reads them.              *)
(***************************************************************************)
EXTENDS Integers, FiniteSets, Sequences, TLC

\* ---------------------------------------------------------------- bounds
MaxCallbacks == 3
MaxRacing == 2
MaxTriggers == 2
MaxClock == 2
MaxRecords == 1
MaxBoots == 2
MaxSends == 4

Callbacks == 1..MaxCallbacks
Racing == 1..MaxRacing       \* the callback slots of the concurrent specifications
Triggers == 1..MaxTriggers
RecordCounts == 0..MaxRecords

\* ------------------------------------------------------------- JS values
\* `null` timestamp of the defaults object; real timestamps are 1..MaxClock.
NullTime == 0

\* readCounter's catch branch.
Defaults == [total |-> 0, success |-> 0, lastRun |-> NullTime, lastUpdate |-> NullTime]

\* JavaScript values of payload fields, written as their literals.
Falsy == {"undefined", "null", "false", "0", "''"}

\* Boolean(v)
Truthy(v) == v \notin Falsy

\* Request bodies a caller may send; NoBody is a request without a JSON body.
NoBody == [present |-> FALSE, success |-> "undefined", status |-> "undefined",
           flag |-> "undefined", result |-> "undefined", count |-> "undefined"]

Body(s, st, f, r, n) == [present |-> TRUE, success |-> s, status |-> st,
                         flag |-> f, result |-> r, count |-> n]

OkBody == Body("undefined", "'ok'", "undefined", "undefined", "undefined")

FooBody == Body("undefined", "undefined", "undefined", "undefined", "undefined")

\* An accepted payload that also carries a number.
CountBody == Body("undefined", "'ok'", "undefined", "undefined", "5")

Payloads ==
  { NoBody, FooBody, OkBody,
    Body("true", "undefined", "undefined", "undefined", "undefined"),
    Body("undefined", "undefined", "'success'", "undefined", "undefined"),
    Body("undefined", "undefined", "undefined", "'success'", "undefined"),
    Body("false", "undefined", "undefined", "undefined", "5"),
    Body("'false'", "'error'", "undefined", "undefined", "undefined"),
    CountBody,
    Body("0", "'OK'", "'ok'", "'ok'", "5"),
    Body("undefined", "'success'", "undefined", "undefined", "undefined") }

\* const body = req.body || {}
BodyOrEmpty(b) == IF b.present THEN b ELSE FooBody

\* const success = Boolean(body.success) || body.status === 'ok' || ...
SuccessFlag(b) ==
  LET body == BodyOrEmpty(b)
  IN  \/ Truthy(body.success)
      \/ body.status = "'ok'"
      \/ body.flag = "'success'"
      \/ body.result = "'success'"

\* ------------------------------------------------------------ file system
Digits(n) == IF n < 10 THEN 1 ELSE IF n < 100 THEN 2 ELSE 3

\* Length of a timestamp in JSON: null, or a quoted toISOString() value.
TimeLen(t) == IF t = NullTime THEN 4 ELSE 26

\* Length of JSON.stringify(counter, null, 2) without its four values.
JsonFrameLen == 63

JsonLen(c) == JsonFrameLen + Digits(c.total) + Digits(c.success)
              + TimeLen(c.lastRun) + TimeLen(c.lastUpdate)

\* counter.json does not exist.
Absent == [st |-> "absent", len |-> 0, val |-> Defaults]

\* open(path, 'w'): the file exists and is empty.
Truncated == [st |-> "torn", len |-> 0, val |-> Defaults]

\* write(fd, body) at offset 0 of a file that now holds f: a longer f keeps
\* its tail behind the new bytes, and the result is no JSON document.
WriteAt0(f, c) ==
  IF f.len <= JsonLen(c)
  THEN [st |-> "text", len |-> JsonLen(c), val |-> c]
  ELSE [st |-> "torn", len |-> f.len, val |-> Defaults]

\* readCounter(): the parsed file, or the defaults when readFile or
\* JSON.parse throws.
ReadCounter(f) == IF f.st = "text" THEN f.val ELSE Defaults

\* clients.json does not exist.
NoArtifact == [st |-> "absent", len |-> 0, n |-> 0]

\* open(OUT_FILE, 'w') in the job.
TruncatedArtifact == [st |-> "torn", len |-> 0, n |-> 0]

\* The job's write of an array of n rows at offset 0 (rows of one table are
\* taken to serialize to the same length, so the length grows with n).
WriteArtifactAt0(a, n) ==
  IF a.len <= n
  THEN [st |-> "text", len |-> n, n |-> n]
  ELSE [st |-> "torn", len |-> a.len, n |-> 0]

\* let total = 0; try { arr = JSON.parse(readFile(CLIENTS_FILE));
\*                      if (Array.isArray(arr)) total = arr.length } catch {}
ArtifactTotal(a) == IF a.st = "text" THEN a.n ELSE 0

\* ----------------------------------------------------------------- state
VARIABLES
  file,       \* data/counter.json
  artifact,   \* data/clients.json
  clock,      \* what new Date() returns
  cb,         \* one /api/n8n/callback request per slot
  tr,         \* one /api/start-calls request per slot
  job,        \* the child process spawned by trigger t
  close,      \* the 'close' handler of the child of trigger t
  polled,     \* the last response of GET /api/counter
  persisted,  \* history: the last state a write left readable in counter.json
  proc,       \* the server process
  ui          \* the App component in the browser

vars == <<file, artifact, clock, cb, tr, job, close, polled, persisted, proc, ui>>

\* History kept with a callback request: the triggers that had been invoked
\* (started) and those that had responded (after) when it was received.
InvokedTriggers == {t \in Triggers : tr[t].pc # "idle"}

RespondedTriggers == {t \in Triggers : tr[t].pc = "done"}

IdleCallback == [pc |-> "idle", body |-> NoBody, counter |-> Defaults, now |-> NullTime,
                 code |-> 0, started |-> {}, after |-> {}]

IdleTrigger == [pc |-> "idle", startTime |-> NullTime, code |-> 0]

NoJob == [pc |-> "none", data |-> 0, code |-> 0, mode |-> "none", hook |-> "none"]

\* The polling client has no response yet.
NoResponse == [total |-> -1, success |-> -1, lastRun |-> NullTime, lastUpdate |-> NullTime]

\* The server process: running, and how often it has been started.
FirstBoot == [alive |-> TRUE, boots |-> 1]

\* useState(false), useState({ visible: false, message: '', type: 'info' });
\* no request is under way, no timer is armed, nothing has been posted.
\* configured: N8N_WEBHOOK_URL is set and is not the placeholder.
InitialUi(configured) ==
  [configured |-> configured, loading |-> FALSE,
   visible |-> FALSE, message |-> "", type |-> "info", timer |-> FALSE,
   pending |-> 0, json |-> 0, text |-> 0, posted |-> 0]

IdleClose == [pc |-> "idle", total |-> 0, now |-> NullTime, current |-> Defaults]

\* The server after start-up on a fresh data directory.
InitServer ==
  /\ file = Absent
  /\ artifact = NoArtifact
  /\ clock = 1
  /\ cb = [c \in Callbacks |-> IdleCallback]
  /\ tr = [t \in Triggers |-> IdleTrigger]
  /\ job = [t \in Triggers |-> NoJob]
  /\ close = [t \in Triggers |-> IdleClose]
  /\ polled = NoResponse
  /\ persisted = Defaults
  /\ proc = FirstBoot

Init ==
  /\ InitServer
  /\ ui = InitialUi(TRUE)

\* The page loaded from a build with or without INITIATE_URL.
InitUi ==
  /\ InitServer
  /\ ui \in {InitialUi(configured) : configured \in BOOLEAN}

\* What a write leaves as the last readable state.
Readable(f, old) == IF f.st = "text" THEN f.val ELSE old

\* Time passes between two calls of new Date().
Tick ==
  /\ clock < MaxClock
  /\ clock' = clock + 1
  /\ UNCHANGED <<file, artifact, cb, tr, job, close, polled, persisted, proc, ui>>

\* ------------------------------------------------- POST /api/n8n/callback
\* Updated with the increment taken from nothing: success: 1.
UpdatedFromScratch(counter, now) ==
  [counter EXCEPT !.success = 1, !.lastUpdate = now]

\* { ...counter, success: (counter.success || 0) + 1, lastUpdate: now }
Updated(counter, now) ==
  [counter EXCEPT !.success = (IF counter.success = 0 THEN 0 ELSE counter.success) + 1,
                  !.lastUpdate = now]

\* CbReceive without the `return` of line 240: a rejected request is
\* answered 400 and the handler goes on all the same.
CbReceiveFallsThrough(c, b) ==
  /\ cb[c].pc = "idle"
  /\ \A d \in 1..(c - 1) : cb[d].pc # "idle"
  /\ cb' = [cb EXCEPT ![c] = [@ EXCEPT !.pc = "read", !.body = b,
                                        !.code = IF SuccessFlag(b) THEN 0 ELSE 400,
                                        !.started = InvokedTriggers,
                                        !.after = RespondedTriggers]]
  /\ UNCHANGED <<file, artifact, clock, tr, job, close, polled, persisted, proc, ui>>

\* Lines 237-243: the payload is judged; a rejected request is answered 400,
\* an accepted one goes on to readCounter().
CbReceive(c, b) ==
  /\ cb[c].pc = "idle"
  /\ \A d \in 1..(c - 1) : cb[d].pc # "idle"   \* slots are taken in order of arrival
  /\ cb' = [cb EXCEPT ![c] =
              IF SuccessFlag(b)
              THEN [@ EXCEPT !.pc = "read", !.body = b,
                             !.started = InvokedTriggers, !.after = RespondedTriggers]
              ELSE [@ EXCEPT !.pc = "done", !.body = b, !.code = 400,
                             !.started = InvokedTriggers, !.after = RespondedTriggers]]
  /\ UNCHANGED <<file, artifact, clock, tr, job, close, polled, persisted, proc, ui>>

\* Lines 243-245: readCounter() returns, now and updated are computed.
CbRead(c) ==
  /\ cb[c].pc = "read"
  /\ cb' = [cb EXCEPT ![c] = [@ EXCEPT !.pc = "open", !.counter = ReadCounter(file),
                                        !.now = clock]]
  /\ UNCHANGED <<file, artifact, clock, tr, job, close, polled, persisted, proc, ui>>

\* Line 246, writeCounter: ensureDataDir(), then writeFile opens the file.
CbOpen(c) ==
  /\ cb[c].pc = "open"
  /\ file' = Truncated
  /\ cb' = [cb EXCEPT ![c].pc = "write"]
  /\ UNCHANGED <<artifact, clock, tr, job, close, polled, persisted, proc, ui>>

\* Lines 246-247: writeFile writes the body, the handler answers 200.
CbWrite(c) ==
  /\ cb[c].pc = "write"
  /\ file' = WriteAt0(file, Updated(cb[c].counter, cb[c].now))
  /\ persisted' = Readable(file', persisted)
  /\ cb' = [cb EXCEPT ![c] = [@ EXCEPT !.pc = "done", !.code = 200,
                                        !.counter = Defaults, !.now = NullTime]]
  /\ UNCHANGED <<artifact, clock, tr, job, close, polled, proc, ui>>

\* ---------------------------------------------------- POST /api/start-calls
\* { total: 0, success: 0, lastRun: startTime, lastUpdate: startTime }
ResetState(startTime) ==
  [total |-> 0, success |-> 0, lastRun |-> startTime, lastUpdate |-> startTime]

\* TrStart with a single-run guard: a trigger that finds the job of an
\* earlier run still in flight is answered 409 and starts nothing.
TrStartGuarded(t) ==
  /\ tr[t].pc = "idle"
  /\ \A u \in 1..(t - 1) : tr[u].pc # "idle"
  /\ tr' = [tr EXCEPT ![t] =
              IF \E u \in Triggers : job[u].pc \in {"run", "open", "write"}
              THEN [pc |-> "done", startTime |-> NullTime, code |-> 409]
              ELSE [pc |-> "open", startTime |-> clock, code |-> 0]]
  /\ UNCHANGED <<file, artifact, clock, cb, job, close, polled, persisted, proc, ui>>

\* Lines 196-199: ensureDataDir(), then startTime is taken.
TrStart(t) ==
  /\ tr[t].pc = "idle"
  /\ \A u \in 1..(t - 1) : tr[u].pc # "idle"   \* slots are taken in order of arrival
  /\ tr' = [tr EXCEPT ![t] = [pc |-> "open", startTime |-> clock, code |-> 0]]
  /\ UNCHANGED <<file, artifact, clock, cb, job, close, polled, persisted, proc, ui>>

\* TrOpen with the spawn of lines 202-206 moved before the reset has been
\* written: the child is launched once the file is open.
TrOpenSpawns(t) ==
  /\ tr[t].pc = "open"
  /\ file' = Truncated
  /\ tr' = [tr EXCEPT ![t].pc = "write"]
  /\ job' = [job EXCEPT ![t].pc = "run"]
  /\ UNCHANGED <<artifact, clock, cb, close, polled, persisted, proc, ui>>

\* Line 200, writeCounter: writeFile opens the file.
TrOpen(t) ==
  /\ tr[t].pc = "open"
  /\ file' = Truncated
  /\ tr' = [tr EXCEPT ![t].pc = "write"]
  /\ UNCHANGED <<artifact, clock, cb, job, close, polled, persisted, proc, ui>>

\* Lines 200-231: the reset is written, the child is spawned, the handlers
\* are registered and the response is sent, all in one synchronous stretch.
TrWrite(t) ==
  /\ tr[t].pc = "write"
  /\ file' = WriteAt0(file, ResetState(tr[t].startTime))
  /\ persisted' = Readable(file', persisted)
  /\ tr' = [tr EXCEPT ![t] = [@ EXCEPT !.pc = "done", !.code = 200]]
  /\ job' = [job EXCEPT ![t].pc = "run"]
  /\ UNCHANGED <<artifact, clock, cb, close, polled, proc, ui>>

\* ------------------------------------------------------- db_fetch.js main()
\* Lines 76-102: with SUPABASE_URL and SUPABASE_SERVICE_ROLE set the Supabase
\* client is used and pool stays null; otherwise a pg Pool is built.
Modes == {"supabase", "pg"}

\* Lines 198-209: the webhook POST is skipped (no N8N_WEBHOOK_URL), succeeds
\* or fails (caught and logged).
Hooks == {"skipped", "ok", "failed"}

\* What the runtime does with a promise rejected and never handled: end the
\* process with an uncaught exception, or only warn.
Rejections == {"throw", "warn"}

\* Lines 213-215 and 222: `finally { await pool.end() }` with pool = null
\* throws a TypeError out of main(), whose promise nobody handles; with a
\* pool the job ends with process.exitCode, 0 unless the catch set it.
ExitCode(mode, exitCode, rejection) ==
  IF mode = "supabase" /\ rejection = "throw" THEN 1 ELSE exitCode

\* Lines 80-83: no connection info in the environment, process.exit(1).
JobMisconfigured(t) ==
  /\ job[t].pc = "run"
  /\ job' = [job EXCEPT ![t] = [@ EXCEPT !.pc = "exited", !.code = 1]]
  /\ UNCHANGED <<file, artifact, clock, cb, tr, close, polled, persisted, proc, ui>>

\* Line 189: fetchClients() returns n rows in data-source mode m.
JobFetch(t, n, m) ==
  /\ job[t].pc = "run"
  /\ job' = [job EXCEPT ![t] = [@ EXCEPT !.pc = "open", !.data = n, !.mode = m]]
  /\ UNCHANGED <<file, artifact, clock, cb, tr, close, polled, persisted, proc, ui>>

\* Lines 189, 210-215: fetchClients() throws, the catch sets exit code 2,
\* the finally ends the pool.
JobFetchFails(t, m, r) ==
  /\ job[t].pc = "run"
  /\ job' = [job EXCEPT ![t] = [@ EXCEPT !.pc = "exited", !.mode = m,
                                          !.code = ExitCode(m, 2, r)]]
  /\ UNCHANGED <<file, artifact, clock, cb, tr, close, polled, persisted, proc, ui>>

\* Lines 191-194: ensureDataDir(), then writeFile opens clients.json.
JobOpen(t) ==
  /\ job[t].pc = "open"
  /\ artifact' = TruncatedArtifact
  /\ job' = [job EXCEPT ![t].pc = "write"]
  /\ UNCHANGED <<file, clock, cb, tr, close, polled, persisted, proc, ui>>

\* Lines 194-215: the rows are written, the webhook POST has outcome h, the
\* finally ends the pool and the job ends.
JobWrite(t, h, r) ==
  /\ job[t].pc = "write"
  /\ artifact' = WriteArtifactAt0(artifact, job[t].data)
  /\ job' = [job EXCEPT ![t] = [@ EXCEPT !.pc = "exited", !.hook = h,
                                          !.code = ExitCode(job[t].mode, 0, r)]]
  /\ UNCHANGED <<file, clock, cb, tr, close, polled, persisted, proc, ui>>

\* ------------------------------------------------------ child.on('close')
\* Lines 213-222: the child has ended; clients.json is read, now is taken.
CloseReadArtifact(t) ==
  /\ job[t].pc = "exited"
  /\ close[t].pc = "idle"
  /\ close' = [close EXCEPT ![t] = [@ EXCEPT !.pc = "read", !.total = ArtifactTotal(artifact),
                                              !.now = clock]]
  /\ UNCHANGED <<file, artifact, clock, cb, tr, job, polled, persisted, proc, ui>>

\* Line 223: readCounter() returns.
CloseReadCounter(t) ==
  /\ close[t].pc = "read"
  /\ close' = [close EXCEPT ![t] = [@ EXCEPT !.pc = "open", !.current = ReadCounter(file)]]
  /\ UNCHANGED <<file, artifact, clock, cb, tr, job, polled, persisted, proc, ui>>

\* { ...current, total, lastUpdate: now }
TotalUpdate(current, total, now) ==
  [current EXCEPT !.total = total, !.lastUpdate = now]

\* Line 224, writeCounter: writeFile opens the file.
CloseOpen(t) ==
  /\ close[t].pc = "open"
  /\ file' = Truncated
  /\ close' = [close EXCEPT ![t].pc = "write"]
  /\ UNCHANGED <<artifact, clock, cb, tr, job, polled, persisted, proc, ui>>

\* Lines 224-227: the total update is written and the exit is logged.
CloseWrite(t) ==
  /\ close[t].pc = "write"
  /\ file' = WriteAt0(file, TotalUpdate(close[t].current, close[t].total, close[t].now))
  /\ persisted' = Readable(file', persisted)
  /\ close' = [close EXCEPT ![t] = [IdleClose EXCEPT !.pc = "done"]]
  /\ UNCHANGED <<artifact, clock, cb, tr, job, polled, proc, ui>>

\* ---------------------------------------------------------- GET /api/counter
\* StatusGet as a get-or-create: a read that finds no parsable record
\* writes the defaults to counter.json.
StatusGetInitialises ==
  /\ polled' = ReadCounter(file)
  /\ file' = IF file.st = "text" THEN file ELSE WriteAt0(Truncated, Defaults)
  /\ persisted' = Readable(file', persisted)
  /\ UNCHANGED <<artifact, clock, cb, tr, job, close, proc, ui>>

\* Lines 251-254: readCounter() returns and is sent as the response.
StatusGet ==
  /\ polled' = ReadCounter(file)
  /\ UNCHANGED <<file, artifact, clock, cb, tr, job, close, persisted, proc, ui>>

\* ------------------------------------------------------- App (component)
\* setToast({ visible: true, message, type }); the effect of lines 67-71
\* arms the timer when the toast becomes visible and leaves the running
\* timer alone when it already is.
Toast(u, message, type) ==
  [u EXCEPT !.visible = TRUE, !.message = message, !.type = type, !.timer = TRUE]

\* Requests of the component that have not reached their `finally`.
Requests == ui.pending + ui.json + ui.text

\* The button without disabled={loading}: every click calls startAllCalls.
ClickWhileLoading ==
  /\ ui.configured => ui.posted < MaxSends
  /\ ui' = IF ui.configured
           THEN [ui EXCEPT !.loading = TRUE, !.pending = @ + 1, !.posted = @ + 1]
           ELSE Toast(ui, "configure", "error")
  /\ UNCHANGED <<file, artifact, clock, cb, tr, job, close, polled, persisted, proc>>

\* Lines 76-91 and 127-131: a click on the enabled button calls
\* startAllCalls, which shows the configuration error, or sets loading and
\* starts the fetch.
Click ==
  /\ ~ui.loading
  /\ ui.configured => ui.posted < MaxSends
  /\ ui' = IF ui.configured
           THEN [ui EXCEPT !.loading = TRUE, !.pending = @ + 1, !.posted = @ + 1]
           ELSE Toast(ui, "configure", "error")
  /\ UNCHANGED <<file, artifact, clock, cb, tr, job, close, polled, persisted, proc>>

\* Lines 84-113: the fetch resolves with res.ok; success toast, finally.
FetchOk ==
  /\ ui.pending > 0
  /\ ui' = [Toast(ui, "success", "success") EXCEPT !.pending = @ - 1, !.loading = FALSE]
  /\ UNCHANGED <<file, artifact, clock, cb, tr, job, close, polled, persisted, proc>>

\* Lines 84-97: the fetch resolves with a non-OK response; res.json() is
\* awaited.
FetchNotOk ==
  /\ ui.pending > 0
  /\ ui' = [ui EXCEPT !.pending = @ - 1, !.json = @ + 1]
  /\ UNCHANGED <<file, artifact, clock, cb, tr, job, close, polled, persisted, proc>>

\* Lines 84, 108-113: the fetch rejects; error toast, finally.
FetchFails ==
  /\ ui.pending > 0
  /\ ui' = [Toast(ui, "network", "error") EXCEPT !.pending = @ - 1, !.loading = FALSE]
  /\ UNCHANGED <<file, artifact, clock, cb, tr, job, close, polled, persisted, proc>>

\* Lines 97-113: res.json() resolves; the Webhook error is thrown and
\* caught; error toast, finally.
ErrorJson ==
  /\ ui.json > 0
  /\ ui' = [Toast(ui, "webhook", "error") EXCEPT !.json = @ - 1, !.loading = FALSE]
  /\ UNCHANGED <<file, artifact, clock, cb, tr, job, close, polled, persisted, proc>>

\* Lines 97-101: res.json() rejects; res.text() is awaited.
ErrorJsonFails ==
  /\ ui.json > 0
  /\ ui' = [ui EXCEPT !.json = @ - 1, !.text = @ + 1]
  /\ UNCHANGED <<file, artifact, clock, cb, tr, job, close, polled, persisted, proc>>

\* Lines 101-113: res.text() settles: resolved, the Webhook error is
\* thrown; rejected (the body was used by res.json()), its error leaves the
\* inner catch; either is caught at line 108; error toast, finally.
ErrorText(message) ==
  /\ ui.text > 0
  /\ ui' = [Toast(ui, message, "error") EXCEPT !.text = @ - 1, !.loading = FALSE]
  /\ UNCHANGED <<file, artifact, clock, cb, tr, job, close, polled, persisted, proc>>

\* Lines 67-71: the timer fires, the toast is hidden.
ToastTimeout ==
  /\ ui.timer
  /\ ui' = [ui EXCEPT !.visible = FALSE, !.timer = FALSE]
  /\ UNCHANGED <<file, artifact, clock, cb, tr, job, close, polled, persisted, proc>>

\* The steps that follow a non-OK response.
ErrorBody ==
  \/ ErrorJson
  \/ ErrorJsonFails
  \/ \E message \in {"webhook", "body"} : ErrorText(message)

\* --------------------------------------------------------- write failures
\* No handler has a try/catch around `await writeCounter(...)`.  What comes
\* of the rejected promise of a route handler depends on the router and the
\* runtime the server is built with: the router forwards it to its error
\* handler, which answers 500; or nobody handles it and the runtime only
\* warns, so the request is never answered; or the unhandled rejection
\* ends the process.
RouteRejections == {"forwarded", "dropped", "fatal"}

\* The 'close' listener is called by the event emitter, which drops the
\* promise it returns.
ListenerRejections == {"dropped", "fatal"}

\* The process after a rejection with outcome o.
AfterRejection(o) == [proc EXCEPT !.alive = (o # "fatal")]

\* Line 246: writeFile cannot open counter.json and writeCounter rejects;
\* line 247 is not reached.
CbOpenFails(c, o) ==
  /\ cb[c].pc = "open"
  /\ cb' = [cb EXCEPT ![c] = [@ EXCEPT !.pc = "failed",
                                        !.code = IF o = "forwarded" THEN 500 ELSE 0,
                                        !.counter = Defaults, !.now = NullTime]]
  /\ proc' = AfterRejection(o)
  /\ UNCHANGED <<file, artifact, clock, tr, job, close, polled, persisted, ui>>

\* Line 200: writeFile cannot open counter.json and writeCounter rejects;
\* no child is spawned and line 231 is not reached.
TrOpenFails(t, o) ==
  /\ tr[t].pc = "open"
  /\ tr' = [tr EXCEPT ![t] = [@ EXCEPT !.pc = "failed",
                                        !.code = IF o = "forwarded" THEN 500 ELSE 0]]
  /\ proc' = AfterRejection(o)
  /\ UNCHANGED <<file, artifact, clock, cb, job, close, polled, persisted, ui>>

\* Line 224: writeFile cannot open counter.json and writeCounter rejects;
\* line 227 is not reached.
CloseOpenFails(t, o) ==
  /\ close[t].pc = "open"
  /\ close' = [close EXCEPT ![t] = [IdleClose EXCEPT !.pc = "failed"]]
  /\ proc' = AfterRejection(o)
  /\ UNCHANGED <<file, artifact, clock, cb, tr, job, polled, persisted, ui>>

\* ------------------------------------------------------------ the process
\* The server process stops and is started again (line 260).  Handlers that
\* were between two awaits are lost with their locals, and the 'close' of
\* a child that has not been handled yet goes unheard; counter.json
\* and clients.json stay as they are, and the children are processes of
\* their own.
Restart ==
  /\ proc.boots < MaxBoots
  /\ proc' = [alive |-> TRUE, boots |-> proc.boots + 1]
  /\ cb' = [c \in Callbacks |->
              IF cb[c].pc \in {"read", "open", "write"}
              THEN [cb[c] EXCEPT !.pc = "lost", !.counter = Defaults, !.now = NullTime]
              ELSE cb[c]]
  /\ tr' = [t \in Triggers |->
              IF tr[t].pc \in {"open", "write"} THEN [tr[t] EXCEPT !.pc = "lost"] ELSE tr[t]]
  /\ close' = [t \in Triggers |->
                 IF close[t].pc \in {"read", "open", "write"}
                 THEN [IdleClose EXCEPT !.pc = "lost"]
                 ELSE IF job[t].pc # "none" /\ close[t].pc = "idle"
                      THEN [IdleClose EXCEPT !.pc = "unheard"]
                      ELSE close[t]]
  /\ UNCHANGED <<file, artifact, clock, job, polled, persisted, ui>>

\* ----------------------------------------------------------- specification
\* The steps of the callback requests C with bodies from B.
CallbackSteps(C, B) ==
  \/ \E c \in C : \E b \in B : CbReceive(c, b)
  \/ \E c \in C : CbRead(c)
  \/ \E c \in C : CbOpen(c)
  \/ \E c \in C : CbWrite(c)

\* The steps of the jobs of the runs T that have connection info, in the
\* data-source modes M, with the webhook outcomes H and the rejection
\* handling R.
JobSteps(T, M, H, R) ==
  \/ \E t \in T : \E n \in RecordCounts : \E m \in M : JobFetch(t, n, m)
  \/ \E t \in T : \E m \in M : \E r \in R : JobFetchFails(t, m, r)
  \/ \E t \in T : JobOpen(t)
  \/ \E t \in T : \E h \in H : \E r \in R : JobWrite(t, h, r)

\* The steps of the runs T: trigger, job (pg pool, webhook posted) and close
\* handler.
RunSteps(T) ==
  \/ \E t \in T : TrStart(t)
  \/ \E t \in T : TrOpen(t)
  \/ \E t \in T : TrWrite(t)
  \/ JobSteps(T, {"pg"}, {"ok"}, {"throw"})
  \/ \E t \in T : CloseReadArtifact(t)
  \/ \E t \in T : CloseReadCounter(t)
  \/ \E t \in T : CloseOpen(t)
  \/ \E t \in T : CloseWrite(t)

\* One run: a single trigger, its job and close handler, with callbacks
\* and status polls at any time.
Next ==
  \/ Tick
  \/ CallbackSteps(Racing, {OkBody, FooBody})
  \/ RunSteps({1})
  \/ StatusGet

Spec == Init /\ [][Next]_vars

\* Overlapping runs: every trigger slot, one callback.
NextOverlap ==
  \/ Tick
  \/ CallbackSteps({1}, {OkBody})
  \/ RunSteps(Triggers)

SpecOverlap == Init /\ [][NextOverlap]_vars

\* Callbacks alone, with every payload shape.
NextPayload ==
  \/ Tick
  \/ CallbackSteps(Racing, Payloads)

SpecPayload == Init /\ [][NextPayload]_vars

\* One run with one callback at any time.
NextRun ==
  \/ Tick
  \/ CallbackSteps({1}, {OkBody})
  \/ RunSteps({1})

SpecRun == Init /\ [][NextRun]_vars

\* Runs alone: every trigger slot with its job and close handler, within
\* one tick of the clock, no callbacks.
NextRuns == RunSteps(Triggers)

SpecRuns == Init /\ [][NextRuns]_vars

\* Restarts: a trigger and a callback are handled until the last start of
\* the process, status reads come at any time.
NextRestart ==
  \/ Tick
  \/ proc.boots < MaxBoots /\ CallbackSteps({1}, {OkBody})
  \/ proc.boots < MaxBoots /\ (TrStart(1) \/ TrOpen(1) \/ TrWrite(1))
  \/ Restart
  \/ StatusGet

SpecRestart == Init /\ [][NextRestart]_vars

\* One run and one callback whose writes may fail; the handlers take steps
\* while the process lives, the job is a process of its own.
NextFail ==
  \/ Tick
  \/ proc.alive /\ CallbackSteps({1}, {OkBody})
  \/ proc.alive /\ (TrStart(1) \/ TrOpen(1) \/ TrWrite(1))
  \/ JobSteps({1}, {"pg"}, {"ok"}, {"throw"})
  \/ proc.alive /\ (CloseReadArtifact(1) \/ CloseReadCounter(1) \/ CloseOpen(1) \/ CloseWrite(1))
  \/ proc.alive /\ \E o \in RouteRejections : CbOpenFails(1, o)
  \/ proc.alive /\ \E o \in RouteRejections : TrOpenFails(1, o)
  \/ proc.alive /\ \E o \in ListenerRejections : CloseOpenFails(1, o)

SpecFail == Init /\ [][NextFail]_vars

\* Status reads while a trigger and a callback are handled.
NextStatus ==
  \/ Tick
  \/ CallbackSteps({1}, {OkBody})
  \/ TrStart(1) \/ TrOpen(1) \/ TrWrite(1)
  \/ StatusGet

SpecStatus == Init /\ [][NextStatus]_vars

\* The jobs of the triggers in every environment: without connection info,
\* in both data-source modes, with every webhook outcome, on a runtime that
\* ends the process on an unhandled rejection or only warns.
NextJob ==
  \/ \E t \in Triggers : TrStart(t)
  \/ \E t \in Triggers : TrOpen(t)
  \/ \E t \in Triggers : TrWrite(t)
  \/ \E t \in Triggers : JobMisconfigured(t)
  \/ JobSteps(Triggers, Modes, Hooks, Rejections)

SpecJob == Init /\ [][NextJob]_vars

\* The component in the browser.  Reading the body of a response that has
\* arrived is not put off for ever.
NextUi ==
  \/ Click
  \/ FetchOk
  \/ FetchNotOk
  \/ FetchFails
  \/ ErrorBody
  \/ ToastTimeout

SpecUi == InitUi /\ [][NextUi]_vars /\ WF_vars(ErrorBody)

\* Handlers of the server that are between their first and last step.
InFlight ==
  \/ \E c \in Callbacks : cb[c].pc \in {"read", "open", "write"}
  \/ \E t \in Triggers : tr[t].pc \in {"open", "write"}
  \/ \E t \in Triggers : close[t].pc \in {"read", "open", "write"}

\* One handler at a time: a request or close event is taken up only when no
\* other handler is in flight.  Jobs are processes of their own.
CbReceiveAlone(c, b) == ~InFlight /\ CbReceive(c, b)

TrStartAlone(t) == ~InFlight /\ TrStart(t)

CloseReadArtifactAlone(t) == ~InFlight /\ CloseReadArtifact(t)

NextSeq ==
  \/ Tick
  \/ \E c \in Callbacks : \E b \in {OkBody, CountBody, FooBody} : CbReceiveAlone(c, b)
  \/ \E c \in Callbacks : CbRead(c)
  \/ \E c \in Callbacks : CbOpen(c)
  \/ \E c \in Callbacks : CbWrite(c)
  \/ TrStartAlone(1)
  \/ TrOpen(1)
  \/ TrWrite(1)
  \/ JobSteps({1}, {"pg"}, {"ok"}, {"throw"})
  \/ CloseReadArtifactAlone(1)
  \/ CloseReadCounter(1)
  \/ CloseOpen(1)
  \/ CloseWrite(1)

SpecSeq == Init /\ [][NextSeq]_vars

\* ------------------------------------------------------------------ claims
\* Callbacks that were accepted and have responded.
Counted == {c \in Callbacks : cb[c].pc = "done" /\ cb[c].code = 200}

\* Every callback received so far was received after trigger t responded.
CallbacksOfRun(t) == \A c \in Callbacks : cb[c].pc # "idle" => t \in cb[c].after

\* C1: when no trigger is in progress, no close handler has started, every
\* callback received has responded and all of them were received after the
\* same triggers (none in between), the persisted success counter is the
\* number of accepted callbacks: the value before the first one, 0, plus N.
C1_NoLostCallbackUpdates ==
  ( /\ \A t \in Triggers : tr[t].pc \in {"idle", "done"} /\ close[t].pc = "idle"
    /\ \A c \in Callbacks : cb[c].pc \in {"idle", "done"}
    /\ \A c \in Callbacks : cb[c].pc = "done" =>
          cb[c].started = InvokedTriggers /\ cb[c].after = RespondedTriggers )
  => ReadCounter(file).success = Cardinality(Counted)

\* C2: the write of the close handler of a run never leaves the persisted
\* success counter below the one persisted before it, whatever callbacks of
\* that run are handled meanwhile.
C2_CloseKeepsProgress ==
  [][\A t \in Triggers :
       (CloseWrite(t) /\ CallbacksOfRun(t))
       => persisted'.success >= persisted.success]_vars

\* C3: for a run with no later trigger whose job wrote an artifact of K
\* records and whose close handler has finished, the persisted total is K,
\* in that state and in every later one in which counter.json is readable,
\* whatever callbacks of that run are handled.
C3_TotalIsArtifactLength ==
  \A t \in Triggers :
    ( /\ close[t].pc = "done"
      /\ CallbacksOfRun(t)
      /\ job[t].pc = "exited" /\ job[t].code = 0
      /\ \A u \in Triggers : u > t => tr[u].pc = "idle"
      /\ file.st = "text" )
    => file.val.total = job[t].data

\* C4: a status read made after trigger t has responded, before the close
\* handler of t has written, and when every callback received so far was
\* received before t was invoked, returns total = 0 and success = 0.
C4_ResetVisible ==
  [][\A t \in Triggers :
       ( /\ StatusGet
         /\ tr[t].pc = "done"
         /\ close[t].pc # "done"
         /\ \A c \in Callbacks : cb[c].pc # "idle" => t \notin cb[c].started )
       => polled'.total = 0 /\ polled'.success = 0]_vars

\* C5: once a trigger has responded, no step other than a trigger's reset
\* write lowers the persisted success counter, whatever callbacks of the
\* run are handled.
C5_SuccessMonotonic ==
  [][( /\ \E t \in Triggers : tr[t].pc = "done" /\ CallbacksOfRun(t)
       /\ \A t \in Triggers : ~TrWrite(t) )
     => persisted'.success >= persisted.success]_vars

\* The single run is over: the job wrote its artifact and exited, the close
\* handler finished, and every callback was received after the trigger
\* responded and has been answered.
RunFinished ==
  /\ tr[1].pc = "done"
  /\ job[1].pc = "exited" /\ job[1].code = 0
  /\ close[1].pc = "done"
  /\ \A c \in Callbacks : cb[c].pc \in {"idle", "done"}
  /\ \A c \in Callbacks : cb[c].pc = "done" => cb[c].after = {1}

\* C6: a status read after the single run is over returns total = K, the
\* artifact's length, and success = M, the number of accepted callbacks.
C6_EndToEndCount ==
  [][(StatusGet /\ RunFinished)
     => polled'.total = job[1].data /\ polled'.success = Cardinality(Counted)]_vars

\* The four documented indicators: success is the boolean true, status is
\* "ok", flag is "success", result is "success".
Documented(b) ==
  /\ b.present
  /\ \/ b.success = "true"
     \/ b.status = "'ok'"
     \/ b.flag = "'success'"
     \/ b.result = "'success'"

\* C7: a callback is answered 200 exactly when its payload holds one of the
\* four documented indicators, and 400 otherwise.
C7_AcceptedIffDocumented ==
  \A c \in Callbacks :
    cb[c].pc = "done" =>
      cb[c].code = (IF Documented(cb[c].body) THEN 200 ELSE 400)

\* C8: no step of a callback that is answered 400 changes counter.json.
C8_RejectedLeavesStateUntouched ==
  [][\A c \in Callbacks :
       (cb'[c] # cb[c] /\ cb'[c].code = 400)
       => file' = file /\ persisted' = persisted]_vars

\* C8 witness: a callback has been rejected after an accepted one was
\* counted, and the counted state is still in the file.
C8_Witness ==
  /\ cb[1].pc = "done" /\ cb[1].code = 200
  /\ cb[2].pc = "done" /\ cb[2].code = 400 /\ cb[2].body = FooBody
  /\ ReadCounter(file).success = 1

\* C9: with one handler at a time, the write of an accepted callback leaves
\* success one above the persisted value, whatever the payload holds, and
\* total and lastRun as they were.
C9_OneCallOneUnit ==
  [][\A c \in Callbacks :
       CbWrite(c) => /\ ReadCounter(file').success = persisted.success + 1
                     /\ ReadCounter(file').total = persisted.total
                     /\ ReadCounter(file').lastRun = persisted.lastRun]_vars

\* C9 witness: three callbacks were counted after the trigger responded and
\* before the close handler of the job started, the second a replay of the
\* first and the third carrying a number: total = 0, success = 3.
C9_Witness ==
  /\ tr[1].pc = "done" /\ close[1].pc = "idle"
  /\ \A c \in 1..3 : cb[c].pc = "done" /\ cb[c].code = 200 /\ cb[c].after = {1}
  /\ cb[1].body = OkBody /\ cb[2].body = OkBody /\ cb[3].body = CountBody
  /\ ReadCounter(file).total = 0
  /\ ReadCounter(file).success = 3

\* C10: the total and lastRun persisted after the write of an accepted
\* callback are the total and lastRun persisted before it.
C10_CallbackFrame ==
  [][\A c \in Callbacks :
       CbWrite(c) => /\ persisted'.total = persisted.total
                     /\ persisted'.lastRun = persisted.lastRun]_vars

\* C11: the write of the close handler of a job that ended with a failure
\* exit code, and so wrote no artifact in its run, leaves the persisted
\* total at the value persisted before it, also when clients.json of an
\* earlier run is on disk or an overlapping run has written its total.
C11_CrashKeepsTotal ==
  [][\A t \in Triggers :
       (CloseWrite(t) /\ job[t].code # 0)
       => persisted'.total = persisted.total]_vars

\* C12: a read of the store returns the defaults only when no write of
\* counter.json has completed yet; otherwise it returns a state that was
\* passed to a write (every such state carries a lastUpdate, so it is not
\* the defaults).  This holds for the status endpoint and for the read step
\* of a callback and of a close handler, also while another handler writes.
C12_NoTornReads ==
  [][/\ StatusGet => (polled' = Defaults => persisted = Defaults)
     /\ \A c \in Callbacks :
          CbRead(c) => (cb'[c].counter = Defaults => persisted = Defaults)
     /\ \A t \in Triggers :
          CloseReadCounter(t) => (close'[t].current = Defaults => persisted = Defaults)]_vars

\* C13: in every trigger the job is launched in the step that completes the
\* write of the reset state, which then is what counter.json holds; the
\* close handler of that job takes no step before the trigger has answered
\* 200; and once the close handler has started, the trigger opens or writes
\* counter.json no more, so its reset cannot land on the run's own total.
C13_TriggerOrdering ==
  [][\A t \in Triggers :
       /\ (job[t].pc = "none" /\ job'[t].pc # "none")
            => /\ tr'[t].pc = "done"
               /\ file' = WriteAt0(Truncated, ResetState(tr[t].startTime))
               /\ persisted' = ResetState(tr[t].startTime)
       /\ close'[t].pc # "idle" => tr[t].pc = "done" /\ tr[t].code = 200
       /\ close[t].pc # "idle" => ~TrOpen(t) /\ ~TrWrite(t)]_vars

\* C13 witness: the close handler of run 1 has written the total of a
\* one-record artifact after the trigger answered, and the state on disk is
\* the trigger's reset with that total.
C13_Witness ==
  /\ tr[1].pc = "done" /\ tr[1].code = 200
  /\ job[1].pc = "exited" /\ job[1].data = 1
  /\ close[1].pc = "done"
  /\ tr[2].pc = "idle"
  /\ file.st = "text"
  /\ file.val = [ResetState(tr[1].startTime) EXCEPT !.total = 1, !.lastUpdate = MaxClock]

\* C14: a trigger is answered 200 and has its job launched whatever the
\* jobs of earlier runs are doing, and the close handler of a job that has
\* ended can take its next step whatever triggers have come since.
C14_OverlapPolicy ==
  \A t \in Triggers :
    /\ tr[t].pc = "done" => tr[t].code = 200 /\ job[t].pc # "none"
    /\ (job[t].pc = "exited" /\ close[t].pc = "idle") => ENABLED CloseReadArtifact(t)
    /\ close[t].pc = "read" => ENABLED CloseReadCounter(t)
    /\ close[t].pc = "open" => ENABLED CloseOpen(t)
    /\ close[t].pc = "write" => ENABLED CloseWrite(t)

\* C14 witness: trigger 2 has answered and its job has not ended, so no
\* close handler of run 2 has run; the close handler of run 1 has finished
\* and the total on disk, reset to 0 by trigger 2, is the length of the
\* artifact of run 1.
C14_Witness ==
  /\ tr[1].pc = "done" /\ tr[2].pc = "done" /\ tr[2].code = 200
  /\ job[2].pc \in {"run", "open", "write"}
  /\ job[1].pc = "exited" /\ job[1].data = 1
  /\ close[1].pc = "done" /\ close[2].pc = "idle"
  /\ file.st = "text" /\ file.val.total = 1

\* No handler was between two awaits, so no write was in progress, at any
\* restart of the process.
RestartedAtRest ==
  /\ proc.boots > 1
  /\ \A c \in Callbacks : cb[c].pc # "lost"
  /\ \A t \in Triggers : tr[t].pc # "lost" /\ close[t].pc # "lost"

\* C15: when the process was restarted with no write in progress, a status
\* read after the last restart, with no request handled in between, returns
\* the state that the last completed write left in the store.
C15_SurvivesRestart ==
  [][(StatusGet /\ proc.boots = MaxBoots /\ RestartedAtRest)
     => polled' = persisted]_vars

\* C16: when the write of a trigger or of an accepted callback fails, the
\* request is answered with status 500 and the process lives on.
C16_WriteFailuresSignalled ==
  [][/\ \A c \in Callbacks :
          (cb[c].pc = "open" /\ cb'[c].pc = "failed")
          => cb'[c].code = 500 /\ proc'.alive
     /\ \A t \in Triggers :
          (tr[t].pc = "open" /\ tr'[t].pc = "failed")
          => tr'[t].code = 500 /\ proc'.alive]_vars

\* C17: a status read answers with the parsed record when counter.json
\* holds one and with the defaults when the file is missing or is no JSON
\* document, and it leaves counter.json, clients.json and the last
\* persisted state as they were.
C17_ReadsNeverFail ==
  [][StatusGet
     => /\ file.st = "text" => polled' = file.val
        /\ file.st # "text" => polled' = Defaults
        /\ file' = file /\ artifact' = artifact /\ persisted' = persisted]_vars

\* C17 witness: the last status read returned the defaults while
\* counter.json holds the bytes of two overlapping writes, no JSON
\* document, and the file and the state persisted before it are untouched.
C17_Witness ==
  /\ polled = Defaults
  /\ file.st = "torn" /\ file.len > 0
  /\ persisted # Defaults

\* C18: once the only trigger invoked has completed its reset write, the
\* persisted lastRun is that trigger's start time, in every later state.
C18_LastRunIsLatestReset ==
  \A t \in Triggers :
    ( /\ tr[t].pc = "done"
      /\ \A u \in Triggers \ {t} : tr[u].pc = "idle" )
    => persisted.lastRun = tr[t].startTime

\* C19: a job whose fetch and artifact write succeeded ends with exit code
\* 0, in either data-source mode and whatever came of the webhook POST; a
\* job whose fetch failed ends with exit code 2 and leaves clients.json as
\* it was.
C19_JobExitCode ==
  [][\A t \in Triggers :
       /\ (job[t].pc = "write" /\ job'[t].pc = "exited") => job'[t].code = 0
       /\ (job[t].pc = "run" /\ job'[t].pc = "exited" /\ job'[t].mode \in Modes)
            => job'[t].code = 2 /\ artifact' = artifact]_vars

\* C20: the component has at most one request under way, and loading is
\* true exactly while it has one, which needs a configured URL; the button
\* takes no click while loading is true; loading becomes true only in a
\* step that starts a request; a request that ends leaves loading false
\* and a visible toast of type success after an OK response and of type
\* error after a network error or a non-OK response; and after a non-OK
\* response loading does become false with an error toast shown.
C20_OneRequestInFlight ==
  /\ [](/\ Requests <= 1
        /\ ui.loading <=> Requests = 1
        /\ ui.loading => ui.configured
        /\ ui.loading => ~ENABLED Click)
  /\ [][/\ (~ui.loading /\ ui'.loading) => ui.configured /\ ui'.posted = ui.posted + 1
        /\ FetchOk => ~ui'.loading /\ ui'.visible /\ ui'.type = "success"
        /\ (FetchFails \/ ErrorJson \/ \E m \in {"webhook", "body"} : ErrorText(m))
             => ~ui'.loading /\ ui'.visible /\ ui'.type = "error"]_vars
  /\ (ui.json + ui.text > 0) ~> (~ui.loading /\ ui.visible /\ ui.type = "error")

\* C20 witness: the last of the sends the bound allows got a non-OK
\* response whose body was no JSON; its error toast has timed out and the
\* button is enabled again.
C20_Witness ==
  /\ ui.configured /\ ui.posted = MaxSends
  /\ Requests = 0 /\ ~ui.loading
  /\ ui.message = "body" /\ ui.type = "error"
  /\ ~ui.visible

====
